---- MODULE Spec2Model ----
(***************************************************************************)
(* Towify: the session provider (SessionContext), the role router          *)
(* (navigateToDashboard), the splash screen, the login handler, sign-out   *)
(* and the guards of the protected views, as one state machine.            *)
(*                                                                         *)
(* Strings that the code converts (role values) are sequences of           *)
(* one-character strings, so that toLowerCase is computed character by     *)
(* character.  JavaScript's null role is the one-element sequence NULLROLE.*)
(*                                                                         *)
(* The screens that read and write vehicles, fines, tows and complaints    *)
(* are further specifications over the same variables: SpecVehicles,       *)
(* SpecFines, SpecFineWrites, SpecTows, SpecLookup and SpecComplaints.     *)
(* SpecStartup is the start of the app under fair scheduling.  Time is     *)
(* counted in days; ids are row numbers, NoId is a null id.                *)
(***************************************************************************)
EXTENDS Integers, Sequences, FiniteSets, Bags, TLC

\* ---------------------------------------------------------------- bounds
MaxMounts == 2      \* how many times the provider is mounted in a run
MaxInflight == 2    \* role lookups in flight at the same time
MaxSignOut == 2     \* signOut calls in flight at the same time

\* ---------------------------------------------------------------- values
NULL == "null"
Users == {"u1", "u2"}

NULLROLE == <<"<null>">>
NOROW == <<"<norow>">>
S_empty == <<>>
S_owner == <<"o", "w", "n", "e", "r">>
S_staff == <<"s", "t", "a", "f", "f">>
S_officer == <<"o", "f", "f", "i", "c", "e", "r">>
S_OWNER == <<"O", "W", "N", "E", "R">>
S_Staff == <<"S", "t", "a", "f", "f">>
S_admin == <<"a", "d", "m", "i", "n">>

\* what the role column of a profile row can hold; NOROW: the user has no row
RoleColumn == {S_empty, S_owner, S_staff, S_officer, S_OWNER, S_Staff, S_admin}
ProfileTables == [Users -> RoleColumn \cup {NOROW}]

Dashboards == {"owner", "staff", "officer"}
GuardedViews == {"issueFine", "complaintReview"}
Routes == {"none", "splash", "login"} \cup Dashboards \cup GuardedViews

VARIABLES
    backendCred,   \* the credential the auth service holds: a user or NULL
    profiles,      \* the profiles table: user -> role column, or NOROW
    mounted,       \* the SessionProvider is mounted
    epoch,         \* which mount of the provider this is
    session,       \* useState session (the session's user, or NULL)
    loading,       \* useState loading
    userRole,      \* useState userRole
    listeners,     \* the mounts whose onAuthStateChange subscription is active
    sessionReqs,   \* the mounts whose getSession() call is in flight
    roleReqs,      \* fetchUserRole queries in flight: a bag of [ep, uid]
    route,         \* the screen the router shows
    under,         \* the dashboard a pushed view returns to
    timer,         \* the splash screen's setTimeout and what its closure holds
    loginPc,       \* where handleLogin is
    loginUser,     \* the user handleLogin signs in
    signOutCalls,  \* signOut calls in flight: a bag of [via]
    lastNav,       \* the last routing decision: who took it, on what, where to
    roleFromFailure \* userRole was last set by a lookup whose request failed

\* The tables of the backend and the local state of the screens that read
\* and write them.  Rows keep the columns the handlers below read or write.
VARIABLES
    now,           \* the clock, in days
    deviceUser,    \* client -> session.user.id of the session that client holds
    vehicles,      \* vehicles table, id = index: [owner_id, license_plate, deleted],
                   \*   and [make, model, color] in the rows the record-tow flow adds
    fines,         \* fines table, id = index: [vehicle_id, status, payment_date,
                   \*   transaction_id, issue_date, due_date, tow_id]
    tows,          \* tows table, id = index: [vehicle_id, license_plate, status,
                   \*   request_status]
    complaints,    \* complaints table, id = index: [user_id, status, response,
                   \*   resolved_by, resolved_at]
    notifications, \* notifications table: a set of [user_id, type, related_id]
    vehicleList,   \* VehicleListScreen: useState vehicles (ids of the rows shown)
    vehicleDetail, \* vehicle-details: useState vehicle (id of the row shown)
    fineList,      \* FineHistoryScreen: useState fines and what each item shows
    fineScreen,    \* FineDetailsScreen of each client: fineDetails, modal,
                   \*   the payment in flight, the alert its fetch ended in
    towForm,       \* RecordTowScreen: licensePlate and vehicleFound
    lastSubmit,    \* the last handleSubmitTow: what failed, the tow it left, its
                   \*   alert, and the vehicleFound and vehicle fields it read
    reviewModal,   \* ComplaintReviewScreen: selectedComplaint, status, responseText
    lookup,        \* the lookup screen in use and its last searchVehicle: the
                   \*   plate typed, the query, the passes sent, the vehicle set,
                   \*   the alert, vehicleNotFound
    towDetails     \* staff tow details screen: useState towDetails, as loaded

sessionVars == <<backendCred, profiles, mounted, epoch, session, loading, userRole,
          listeners, sessionReqs, roleReqs, route, under, timer, loginPc,
          loginUser, signOutCalls, lastNav, roleFromFailure>>

dataVars == <<now, deviceUser, vehicles, fines, tows, complaints, notifications,
              vehicleList, vehicleDetail, fineList, fineScreen, towForm,
              lastSubmit, reviewModal, lookup, towDetails>>

vars == <<sessionVars, dataVars>>

\* ---------------------------------------------------------------- strings
\* String.prototype.toLowerCase, on the letters the role values use
LowerChar(c) ==
    CASE c = "O" -> "o"
      [] c = "W" -> "w"
      [] c = "N" -> "n"
      [] c = "E" -> "e"
      [] c = "R" -> "r"
      [] c = "S" -> "s"
      [] c = "T" -> "t"
      [] c = "A" -> "a"
      [] c = "F" -> "f"
      [] c = "I" -> "i"
      [] c = "C" -> "c"
      [] OTHER -> c

ToLowerCase(s) == [i \in DOMAIN s |-> LowerChar(s[i])]

\* JavaScript truthiness of a string-or-null: null and "" are falsy
Falsy(r) == r = NULLROLE \/ Len(r) = 0

\* ---------------------------------------------------------------- backend
\* supabase.from('profiles').select('role').eq('id', uid).single():
\* an error when the request fails and when no row matches
SelectRoleSingle(table, uid, net) ==
    IF net = "fail" \/ table[uid] = NOROW
    THEN [error |-> TRUE, role |-> NULLROLE]
    ELSE [error |-> FALSE, role |-> table[uid]]

\* ---------------------------------------------------------------- router
\* navigateToDashboard with the switch's break statements missing: every
\* matching case falls through to the last router.replace of the switch
navigateToDashboardFallThrough(role) ==
    IF Falsy(role)
    THEN "login"
    ELSE "login"

\* navigateToDashboard whose default case grants a dashboard
navigateToDashboardOpen(role) ==
    IF Falsy(role)
    THEN "login"
    ELSE CASE ToLowerCase(role) = S_owner -> "owner"
           [] ToLowerCase(role) = S_staff -> "staff"
           [] ToLowerCase(role) = S_officer -> "officer"
           [] OTHER -> "owner"

\* navigateToDashboard(role): the route it replaces the current one with
navigateToDashboard(role) ==
    IF Falsy(role)
    THEN "login"
    ELSE CASE ToLowerCase(role) = S_owner -> "owner"
           [] ToLowerCase(role) = S_staff -> "staff"
           [] ToLowerCase(role) = S_officer -> "officer"
           [] OTHER -> "login"

\* the splash timer's callback: the route it replaces the splash screen with
SplashDestination(sess, role) ==
    IF sess # NULL THEN navigateToDashboard(role) ELSE "login"

\* handleLogin's switch on the role it fetched: a route, or an alert and no
\* navigation (nav = "none": the login screen stays)
LoginRoute(role) ==
    IF Falsy(role)
    THEN [nav |-> "none", alert |-> "Role Error"]
    ELSE CASE ToLowerCase(role) = S_owner -> [nav |-> "owner", alert |-> "none"]
           [] ToLowerCase(role) = S_staff -> [nav |-> "staff", alert |-> "none"]
           [] ToLowerCase(role) = S_officer -> [nav |-> "officer", alert |-> "none"]
           [] OTHER -> [nav |-> "none", alert |-> "Role Error"]

\* ---------------------------------------------------------------- provider
\* fetchUserRole: what it passes to setUserRole for a query result
FetchedRole(res) ==
    IF res.error
    THEN NULLROLE
    ELSE IF Falsy(res.role) THEN NULLROLE ELSE res.role

\* the callback without its else branch: the role survives a sign-out
ListenerRoleKept(sess, role) == role

\* the onAuthStateChange callback: the role state it leaves for the event's
\* session (setUserRole(null) only when the session has no user)
ListenerRole(sess, role) == IF sess # NULL THEN role ELSE NULLROLE

\* an effect that returns no cleanup
UnsubscribeForgotten(ls, ep) == ls

\* the effect's cleanup: subscription.unsubscribe()
Unsubscribe(ls, ep) == ls \ {ep}

\* the effect's body: supabase.auth.onAuthStateChange(...)
Subscribe(ls, ep) == ls \cup {ep}

\* fetchUserRole(uid) called by mount ep: one more query in flight
StartLookup(reqs, ep, uid) == reqs (+) SetToBag({[ep |-> ep, uid |-> uid]})

\* the lookups in flight after mount ep handled a session value
LookupsAfter(reqs, ep, sess) ==
    IF sess # NULL THEN StartLookup(reqs, ep, sess) ELSE reqs

\* there is room for the lookup that handling sess starts
RoomFor(sess) == sess = NULL \/ BagCardinality(roleReqs) < MaxInflight

\* a role lookup of the present mount for user uid is in flight
LookupInFlight(reqs, ep, uid) == BagIn([ep |-> ep, uid |-> uid], reqs)

\* ---------------------------------------------------------------- splash
NoTimer == [armed |-> FALSE, session |-> NULL, userRole |-> NULLROLE]

\* SplashScreen's effect, run with deps [loading, session, userRole]: the
\* cleanup clears the timer, the body arms one when loading is over
SplashEffect(rt, ld, sess, role) ==
    IF rt = "splash" /\ ~ld
    THEN [armed |-> TRUE, session |-> sess, userRole |-> role]
    ELSE NoTimer

\* ---------------------------------------------------------------- views
\* a dashboard's effect fetches when session?.user is set
DashboardFetches(rt, sess) == rt \in Dashboards /\ sess # NULL

\* IssueFineRoute / ComplaintReviewPage render their screen past two guards
GuardedViewRenders(rt, ld, sess) == rt \in GuardedViews /\ ~ld /\ sess # NULL

ProtectedViewActive ==
    DashboardFetches(route, session) \/ GuardedViewRenders(route, loading, session)

NoNav == [by |-> "none", dest |-> "none", session |-> NULL,
          role |-> NULLROLE, flag |-> FALSE]

TypeOK ==
    /\ backendCred \in Users \cup {NULL}
    /\ profiles \in ProfileTables
    /\ mounted \in BOOLEAN
    /\ epoch \in 1..MaxMounts
    /\ session \in Users \cup {NULL}
    /\ loading \in BOOLEAN
    /\ userRole \in RoleColumn \cup {NULLROLE}
    /\ listeners \subseteq 1..MaxMounts
    /\ sessionReqs \subseteq 1..MaxMounts
    /\ \A r \in BagToSet(roleReqs) : r.ep \in 1..MaxMounts /\ r.uid \in Users
    /\ BagCardinality(roleReqs) <= MaxInflight
    /\ route \in Routes
    /\ under \in Dashboards \cup {"none"}
    /\ timer.armed \in BOOLEAN
    /\ loginPc \in {"idle", "signingIn", "fetchingProfile"}
    /\ loginUser \in Users \cup {NULL}
    /\ BagCardinality(signOutCalls) <= MaxSignOut
    /\ lastNav.dest \in Routes
    /\ roleFromFailure \in BOOLEAN

\* ---------------------------------------------------------------- data bounds
MaxVehicles == 3    \* rows the vehicles table can hold
MaxFines == 2       \* rows the fines table can hold
MaxTows == 2        \* rows the tows table can hold
MaxComplaints == 2  \* rows the complaints table can hold
MaxClock == 31      \* the day a run ends

\* ---------------------------------------------------------------- data values
Devices == {"d1", "d2"}
OwnerClient == "d1"     \* the client whose owner list screens are followed
StaffClient == "d2"     \* the client whose staff screens are followed

NoId == 0               \* a null or undefined id
NoDate == -1            \* a null timestamp
NoTx == <<>>            \* a null transaction_id
NoText == <<"<null>">>  \* a null text column
DueDays == 30           \* the due date a new fine gets by default: 30 days on
TxRandoms == {0, 1}     \* what Math.random() contributes to a transaction id
Elapses == {DueDays, DueDays + 1}  \* the days that pass in one step of the clock

\* license plates as typed and as stored
P_empty == <<>>
P_a1sp == <<"a", "1", " ">>
P_A1 == <<"A", "1">>
P_C2 == <<"C", "2">>
P_e3 == <<"e", "3">>
TypedPlates == {P_empty, P_a1sp, P_C2, P_e3}
P_A1C == <<"A", "1", "C">>
TypedLookups == TypedPlates \cup {<<"a">>}

\* what the operator leaves in the make, model and color fields of the
\* record-tow form: nothing, a text, or blanks
VehicleInputs ==
    {[make |-> <<>>, model |-> <<"e">>, color |-> <<" ">>],
     [make |-> <<"e">>, model |-> <<>>, color |-> <<>>]}

\* response texts as typed
TypedTexts == {<<>>, <<" ">>, <<"o", "k">>}

FineStatusFilters == {NULL, "unpaid", "paid", "overdue"}

\* String.prototype.toUpperCase, on the characters the plates use
UpperChar(c) ==
    CASE c = "a" -> "A"
      [] c = "c" -> "C"
      [] c = "e" -> "E"
      [] OTHER -> c

ToUpperCase(s) == [i \in DOMAIN s |-> UpperChar(s[i])]

\* String.prototype.trim
RECURSIVE TrimStart(_)
TrimStart(s) == IF Len(s) > 0 /\ Head(s) = " " THEN TrimStart(Tail(s)) ELSE s

RECURSIVE TrimEnd(_)
TrimEnd(s) ==
    IF Len(s) > 0 /\ s[Len(s)] = " " THEN TrimEnd(SubSeq(s, 1, Len(s) - 1)) ELSE s

Trim(s) == TrimEnd(TrimStart(s))

\* licensePlate.trim().toUpperCase()
FormatPlate(p) == ToUpperCase(Trim(p))

\* license_plate ILIKE '%needle%'
ILike(hay, needle) ==
    \E i \in 1..(Len(hay) - Len(needle) + 1) :
        ToLowerCase(SubSeq(hay, i, i + Len(needle) - 1)) = ToLowerCase(needle)

\* ---------------------------------------------------------------- vehicles
VehicleRow(owner, plate) ==
    [owner_id |-> owner, license_plate |-> plate, deleted |-> FALSE]

LiveVehicles(table) == {i \in DOMAIN table : ~table[i].deleted}

\* the vehicles query without its owner filter
SelectVehiclesUnscoped(table, uid) == LiveVehicles(table)

\* .from('vehicles').select('*').eq('owner_id', session.user.id)
SelectVehiclesByOwner(table, uid) ==
    {i \in LiveVehicles(table) : table[i].owner_id = uid}

\* .eq('id', id).eq('owner_id', session.user.id).single(): an error when the
\* request fails and when no row matches
SelectVehicleSingle(table, id, uid, net) ==
    IF net = "error" \/ id \notin SelectVehiclesByOwner(table, uid)
    THEN [error |-> TRUE, id |-> NoId]
    ELSE [error |-> FALSE, id |-> id]

\* .from('vehicles').delete().eq('id', id).eq('owner_id', session.user.id)
DeleteVehicle(table, id, uid) ==
    [i \in DOMAIN table |->
        IF i = id /\ i \in SelectVehiclesByOwner(table, uid)
        THEN [table[i] EXCEPT !.deleted = TRUE]
        ELSE table[i]]

\* x || d of JavaScript, on strings: the empty string is falsy
OrDefault(x, d) == IF Len(x) = 0 THEN d ELSE x

\* handleSubmitTow's newVehicleData
NewVehicleData(plate, info) ==
    [owner_id |-> NULL, license_plate |-> plate, deleted |-> FALSE,
     make |-> OrDefault(info.make, <<"Unknown">>),
     model |-> OrDefault(info.model, <<"Unknown">>),
     color |-> OrDefault(info.color, <<"unknown">>)]

\* one query of a plate lookup and its answer: .eq('license_plate', plate) or
\* .ilike('license_plate', `%plate%`) on the rows ids of a table; data is
\* null, here no row, when the request fails
PlatePass(name, table, ids, kind, plate, net) ==
    [table |-> name, kind |-> kind, net |-> net,
     rows |-> IF net = "error" THEN {}
              ELSE {i \in ids : IF kind = "exact"
                                THEN table[i].license_plate = plate
                                ELSE ILike(table[i].license_plate, plate)}]

\* RecordTowScreen.searchVehicle's two queries: the exact match, then the
\* ILIKE match when the exact match answered with no row; an error of the
\* ILIKE query is dropped and leaves the empty answer of the exact match
SearchRows(table, plate, net1, net2) ==
    LET p1 == PlatePass("vehicles", table, LiveVehicles(table), "exact", plate, net1)
        p2 == PlatePass("vehicles", table, LiveVehicles(table), "substring", plate,
                        net2)
    IN  IF net1 = "error" THEN [error |-> TRUE, rows |-> {}, passes |-> <<p1>>]
        ELSE IF p1.rows # {} THEN [error |-> FALSE, rows |-> p1.rows, passes |-> <<p1>>]
        ELSE [error |-> FALSE, rows |-> p2.rows, passes |-> <<p1, p2>>]

\* no lookup screen open; the screens that look a vehicle up by its plate
\* are "fine" (IssueFineScreen), "tow" (RecordTowScreen) and "search"
\* (VehicleSearchScreen)
NoLookup ==
    [screen |-> "none", typed |-> <<>>, query |-> <<>>, passes |-> <<>>,
     vehicle |-> NoId, fromTow |-> NoId, alert |-> "none", notFound |-> FALSE]

\* the search state of lookup screen s: what its last search left, or its
\* initial useState when the screen is newly opened
Mounted(state, s) ==
    IF state.screen = s THEN state ELSE [NoLookup EXCEPT !.screen = s]

\* ---------------------------------------------------------------- fines
\* the fine insert without the link to the tow
NewFineUnlinked(vid, issued, due, towId) ==
    [vehicle_id |-> vid, status |-> "unpaid", payment_date |-> NoDate,
     transaction_id |-> NoTx, issue_date |-> issued, due_date |-> due,
     tow_id |-> NoId]

\* the row both fine inserts write: no payment_date, no transaction_id; tow_id
\* is the tow handleSubmitTow created, and null in the fine of issueFine
NewFine(vid, issued, due, towId) ==
    [vehicle_id |-> vid, status |-> "unpaid", payment_date |-> NoDate,
     transaction_id |-> NoTx, issue_date |-> issued, due_date |-> due,
     tow_id |-> towId]

\* `TX-${Math.floor(Math.random() * 1000000)}-${Date.now()}`
MockTransactionId(r, t) == <<r, t>>

\* the payment update writing the status and the date but no transaction id
PaymentUpdateNoTx(table, id, vid, date, tx) ==
    [i \in DOMAIN table |->
        IF i = id /\ table[i].vehicle_id = vid
        THEN [table[i] EXCEPT !.status = "paid", !.payment_date = date]
        ELSE table[i]]

\* .from('fines').update({status: 'paid', payment_date, transaction_id})
\*   .eq('id', fineDetails.id).eq('vehicle_id', fineDetails.vehicle_id)
PaymentUpdate(table, id, vid, date, tx) ==
    [i \in DOMAIN table |->
        IF i = id /\ table[i].vehicle_id = vid
        THEN [table[i] EXCEPT !.status = "paid", !.payment_date = date,
                              !.transaction_id = tx]
        ELSE table[i]]

\* the vehicle a fine row embeds: vehicles(...) of the row's vehicle_id
FineVehicle(vtable, fine) ==
    IF fine.vehicle_id \in LiveVehicles(vtable) THEN fine.vehicle_id ELSE NoId

\* fetchFineHistory's query.  The filter .eq('vehicles.owner_id', uid) is on
\* the embedded resource, which is not an inner join: it decides which
\* vehicle a returned fine embeds (none when the owner differs), not which
\* fines are returned.  The filters on vehicle_id and status are on the fines.
SelectFineHistory(ftable, vtable, uid, selectedVehicleId, statusFilter) ==
    LET rows == {i \in DOMAIN ftable :
                    /\ selectedVehicleId = NoId \/ ftable[i].vehicle_id = selectedVehicleId
                    /\ statusFilter = NULL \/ ftable[i].status = statusFilter}
        embedded(i) == IF FineVehicle(vtable, ftable[i]) # NoId
                          /\ vtable[ftable[i].vehicle_id].owner_id = uid
                       THEN ftable[i].vehicle_id ELSE NoId
    IN  {[id |-> i, status |-> ftable[i].status, vehicles |-> embedded(i)] : i \in rows}

\* FineItem of the history list: status={item.status}
ListBadge(status) == status

\* FineDetailsScreen.isPastDue
IsPastDue(status, due, t) == due # NoDate /\ t > due /\ status = "unpaid"

\* the status badge of the detail screen: isPastDue ? 'overdue' : status
DetailBadge(status, due, t) == IF IsPastDue(status, due, t) THEN "overdue" ELSE status

\* fetchFineDetails: the fine by id with its vehicle, .single(); what it ends in
FetchFineOutcome(ftable, vtable, id, uid, net) ==
    IF net = "error" \/ id \notin DOMAIN ftable THEN "Failed to load fine details"
    ELSE IF FineVehicle(vtable, ftable[id]) = NoId THEN "Failed to load fine details"
    ELSE IF vtable[ftable[id].vehicle_id].owner_id # uid
         THEN "You are not authorized to view this fine record"
    ELSE "ok"

\* FineDetailsScreen closed: never opened, or left by router.back() after the
\* alert of a failed fetchFineDetails
FineScreenClosed(msg) ==
    [fine |-> NoId, vehicle_id |-> NoId, status |-> "none", shown |-> "none",
     modal |-> FALSE, processing |-> FALSE, payment_date |-> NoDate,
     transaction_id |-> NoTx, alert |-> msg]

NoFineScreen == FineScreenClosed("none")

NoFineList == [filter |-> NULL, items |-> {}]

\* ---------------------------------------------------------------- tows
\* handleSubmitTow's towPayload sets no request_status: the new row gets the
\* column's default, the status the intake list of TowRequestsScreen starts from
RequestStatusDefault == "new"

\* towPayload: vehicle_id is undefined when the vehicle creation failed
NewTow(vid, plate) ==
    [vehicle_id |-> vid, license_plate |-> plate, status |-> "active",
     request_status |-> RequestStatusDefault]

\* the staff tow details screen before fetchTowDetails has set towDetails
NoTowDetails == [id |-> NoId, status |-> "none", request_status |-> "none",
                 owner |-> NULL]

\* updateRequestStatus's updateData ("Status mappings")
RequestUpdate(row, newStatus) ==
    [row EXCEPT !.request_status = newStatus,
                !.status = IF newStatus = "accepted" THEN "active"
                           ELSE IF newStatus = "completed" THEN "completed"
                           ELSE IF newStatus = "rejected" THEN "cancelled"
                           ELSE @]

\* handleUpdateStatus's update of the tow details screen: request_status is
\* written back from towDetails, the copy the screen loaded
StatusUpdate(row, loaded, newStatus) ==
    [row EXCEPT !.status = newStatus,
                !.request_status = IF newStatus = "completed" THEN "completed"
                                   ELSE loaded.request_status]

\* what fetchTowDetails sets: the tow, and the owner of its vehicle when the
\* profile is read; an error (of a request, or of .single() finding no
\* vehicle) ends in an alert and router.back()
LoadedTow(table, vtable, id, net) ==
    IF net = "error" \/ table[id].vehicle_id \notin LiveVehicles(vtable)
    THEN NoTowDetails
    ELSE [id |-> id, status |-> table[id].status,
          request_status |-> table[id].request_status,
          owner |-> IF net = "no profile" THEN NULL
                    ELSE vtable[table[id].vehicle_id].owner_id]

\* the buttons renderTowRequest draws for a request: isNew, isAccepted
RequestButtons(row) ==
    IF row.request_status = "new" THEN {"accepted", "rejected"}
    ELSE IF row.request_status = "accepted" THEN {"completed"}
    ELSE {}

\* the buttons of the tow details screen
StatusButtons(row) ==
    (IF row.status # "completed" THEN {"completed"} ELSE {})
        \cup (IF row.status = "pending" THEN {"active"} ELSE {})

\* what handleSubmitTow tells the caller: the catch block's alert for a
\* failed tow insert and for a failed fine insert, the success alert otherwise
SubmitAlert(failed, issueFineToo) ==
    IF failed \in {"tow", "fine"}
    THEN "Failed to record the tow. Please try again."
    ELSE IF issueFineToo THEN "Tow record created successfully with associated fine"
    ELSE "Tow record created successfully"

EmptyTowForm == [licensePlate |-> P_empty, vehicleFound |-> NoId]
NoSubmit == [failed |-> "none", tow |-> NoId, alert |-> "none", found |-> NoId,
             info |-> [make |-> <<>>, model |-> <<>>, color |-> <<>>]]

\* ---------------------------------------------------------------- complaints
\* ComplaintScreen's insert: status 'pending', no response, no resolver
NewComplaint(uid) ==
    [user_id |-> uid, status |-> "pending", response |-> NoText,
     resolved_by |-> NULL, resolved_at |-> NoDate]

\* JavaScript truthiness of the optional response argument
HasResponse(response) == response # NoText /\ Len(response) > 0

\* updateComplaintStatus's updateData
ComplaintUpdate(row, newStatus, response, uid, t) ==
    [row EXCEPT !.status = newStatus,
                !.response = IF HasResponse(response) THEN response ELSE @,
                !.resolved_at = IF newStatus = "resolved" THEN t ELSE @,
                !.resolved_by = IF newStatus = "resolved" THEN uid ELSE @]

\* the one-tap buttons renderComplaint draws: isPending, isInReview
ComplaintButtons(row) ==
    (IF row.status = "pending" THEN {"in_review"} ELSE {})
        \cup (IF row.status \in {"pending", "in_review"} THEN {"resolved"} ELSE {})

ComplaintStatuses == {"pending", "in_review", "resolved", "rejected"}

\* the response modal closed: what updateComplaintStatus's finally leaves
ClosedModal == [complaint |-> NoId, selectedStatus |-> "in_review",
                responseText |-> <<>>]

\* ---------------------------------------------------------------- no data
\* the data screens not opened
ScreensClosed ==
    /\ vehicleList = {}
    /\ vehicleDetail = NoId
    /\ fineList = NoFineList
    /\ fineScreen = [d \in Devices |-> NoFineScreen]
    /\ towForm = EmptyTowForm
    /\ lastSubmit = NoSubmit
    /\ reviewModal = ClosedModal
    /\ lookup = NoLookup
    /\ towDetails = NoTowDetails

\* the tables empty and the data screens not opened
NoData ==
    /\ now = 0
    /\ deviceUser = [d \in Devices |-> "u1"]
    /\ vehicles = <<>>
    /\ fines = <<>>
    /\ tows = <<>>
    /\ complaints = <<>>
    /\ notifications = {}
    /\ ScreensClosed

\* ---------------------------------------------------------------- Init
\* The app has just started: RootLayout rendered the provider, whose effect
\* called getSession() and subscribed; the index route shows the splash screen.
Init ==
    /\ backendCred \in Users \cup {NULL}
    /\ profiles \in ProfileTables
    /\ mounted = TRUE
    /\ epoch = 1
    /\ session = NULL
    /\ loading = TRUE
    /\ userRole = NULLROLE
    /\ listeners = Subscribe({}, 1)
    /\ sessionReqs = {1}
    /\ roleReqs = EmptyBag
    /\ route = "splash"
    /\ under = "none"
    /\ timer = NoTimer
    /\ loginPc = "idle"
    /\ loginUser = NULL
    /\ signOutCalls = EmptyBag
    /\ lastNav = NoNav
    /\ roleFromFailure = FALSE
    /\ NoData

\* ---------------------------------------------------------------- actions
\* router.replace(dest): the navigator exists only while the root is mounted
Navigate(dest) == IF mounted THEN dest ELSE route

\* The auth service notifies the subscribed callback of the present mount
\* with the event's session: setSession(session), then fetchUserRole or
\* setUserRole(null).  loading is not touched.
Notify(sess) ==
    IF mounted /\ epoch \in listeners
    THEN /\ RoomFor(sess)
         /\ session' = sess
         /\ userRole' = ListenerRole(sess, userRole)
         /\ roleFromFailure' = (sess # NULL /\ roleFromFailure)
         /\ roleReqs' = LookupsAfter(roleReqs, epoch, sess)
    ELSE UNCHANGED <<session, userRole, roleReqs, roleFromFailure>>

\* RootLayout is rendered again: fresh state, the effect runs
Mount ==
    /\ ~mounted
    /\ epoch < MaxMounts
    /\ mounted' = TRUE
    /\ epoch' = epoch + 1
    /\ session' = NULL
    /\ loading' = TRUE
    /\ userRole' = NULLROLE
    /\ listeners' = Subscribe(listeners, epoch + 1)
    /\ sessionReqs' = sessionReqs \cup {epoch + 1}
    /\ route' = "splash"
    /\ under' = "none"
    /\ timer' = SplashEffect("splash", TRUE, NULL, NULLROLE)
    /\ lastNav' = NoNav
    /\ roleFromFailure' = FALSE
    /\ UNCHANGED <<backendCred, profiles, roleReqs, loginPc, loginUser,
                   signOutCalls>>
    /\ UNCHANGED dataVars

\* RootLayout is torn down: the effect's cleanup runs, the state and the
\* screens are gone; calls in flight stay in flight
Unmount ==
    /\ mounted
    /\ mounted' = FALSE
    /\ listeners' = Unsubscribe(listeners, epoch)
    /\ session' = NULL
    /\ loading' = TRUE
    /\ userRole' = NULLROLE
    /\ route' = "none"
    /\ under' = "none"
    /\ timer' = NoTimer
    /\ roleFromFailure' = FALSE
    /\ UNCHANGED <<backendCred, profiles, epoch, sessionReqs, roleReqs, loginPc,
                   loginUser, signOutCalls, lastNav>>
    /\ UNCHANGED dataVars

\* getSession() of mount ep settles.  Resolved: the .then callback runs
\* (setSession, setLoading(false), fetchUserRole when there is a user); its
\* setters do nothing when that mount is gone.  Rejected: no callback runs.
GetSessionResponse(ep, net) ==
    /\ ep \in sessionReqs
    /\ sessionReqs' = sessionReqs \ {ep}
    /\ IF net = "reject"
       THEN UNCHANGED <<session, loading, userRole, roleReqs, timer>>
       ELSE /\ RoomFor(backendCred)
            /\ roleReqs' = LookupsAfter(roleReqs, ep, backendCred)
            /\ IF mounted /\ ep = epoch
               THEN /\ session' = backendCred
                    /\ loading' = FALSE
                    /\ userRole' = userRole
                    /\ timer' = SplashEffect(route, FALSE, backendCred, userRole)
               ELSE UNCHANGED <<session, loading, userRole, timer>>
    /\ UNCHANGED <<backendCred, profiles, mounted, epoch, listeners, route, under,
                   loginPc, loginUser, signOutCalls, lastNav, roleFromFailure>>
    /\ UNCHANGED dataVars

\* a fetchUserRole query settles: setUserRole(role or null); nothing when
\* the mount that asked is gone
FetchUserRoleResponse(req, net) ==
    /\ BagIn(req, roleReqs)
    /\ roleReqs' = roleReqs (-) SetToBag({req})
    /\ IF mounted /\ req.ep = epoch
       THEN /\ userRole' = FetchedRole(SelectRoleSingle(profiles, req.uid, net))
            /\ roleFromFailure' = (net = "fail")
            /\ timer' = SplashEffect(route, loading, session, userRole')
       ELSE UNCHANGED <<userRole, timer, roleFromFailure>>
    /\ UNCHANGED <<backendCred, profiles, mounted, epoch, session, loading,
                   listeners, sessionReqs, route, under, loginPc, loginUser,
                   signOutCalls, lastNav>>
    /\ UNCHANGED dataVars

\* the splash screen's 2 second timer fires
TimerFire ==
    /\ timer.armed
    /\ LET dest == SplashDestination(timer.session, timer.userRole) IN
       /\ route' = Navigate(dest)
       /\ lastNav' = [by |-> "splash", dest |-> dest, session |-> timer.session,
                      role |-> timer.userRole,
                      flag |-> LookupInFlight(roleReqs, epoch, timer.session)]
    /\ timer' = SplashEffect(route', loading, session, userRole)
    /\ UNCHANGED <<backendCred, profiles, mounted, epoch, session, loading,
                   userRole, listeners, sessionReqs, roleReqs, under, loginPc,
                   loginUser, signOutCalls, roleFromFailure>>
    /\ UNCHANGED dataVars

\* LoginScreen: handleLogin passes validateForm and calls signInWithPassword
LoginSubmit(u) ==
    /\ mounted
    /\ route = "login"
    /\ loginPc = "idle"
    /\ loginPc' = "signingIn"
    /\ loginUser' = u
    /\ UNCHANGED <<backendCred, profiles, mounted, epoch, session, loading,
                   userRole, listeners, sessionReqs, roleReqs, route, under,
                   timer, signOutCalls, lastNav, roleFromFailure>>
    /\ UNCHANGED dataVars

\* signInWithPassword settles: an error is thrown to the catch (alert), a
\* success stores the credential, notifies the listener and handleLogin goes
\* on to query the profile
SignInResponse(net) ==
    /\ loginPc = "signingIn"
    /\ IF net = "error"
       THEN /\ loginPc' = "idle"
            /\ loginUser' = NULL
            /\ lastNav' = [by |-> "login", dest |-> "none", session |-> loginUser,
                           role |-> NULLROLE, flag |-> TRUE]
            /\ UNCHANGED <<backendCred, session, userRole, roleReqs, timer,
                           roleFromFailure>>
       ELSE /\ loginPc' = "fetchingProfile"
            /\ backendCred' = loginUser
            /\ Notify(loginUser)
            /\ timer' = SplashEffect(route, loading, session', userRole')
            /\ UNCHANGED <<loginUser, lastNav>>
    /\ UNCHANGED <<profiles, mounted, epoch, loading, listeners, sessionReqs,
                   route, under, signOutCalls>>
    /\ UNCHANGED dataVars

\* handleLogin's own profile query settles: alert on error, else the switch
LoginProfileResponse(net) ==
    /\ loginPc = "fetchingProfile"
    /\ loginPc' = "idle"
    /\ LET res == SelectRoleSingle(profiles, loginUser, net)
           to == LoginRoute(res.role) IN
       IF res.error
       THEN /\ lastNav' = [by |-> "login", dest |-> "none", session |-> loginUser,
                           role |-> NULLROLE, flag |-> TRUE]
            /\ UNCHANGED <<route, timer>>
       ELSE /\ route' = IF to.nav = "none" THEN route ELSE Navigate(to.nav)
            /\ lastNav' = [by |-> "login", dest |-> to.nav, session |-> loginUser,
                           role |-> res.role, flag |-> FALSE]
            /\ timer' = SplashEffect(route', loading, session, userRole)
    /\ loginUser' = NULL
    /\ UNCHANGED <<backendCred, profiles, mounted, epoch, session, loading,
                   userRole, listeners, sessionReqs, roleReqs, under,
                   signOutCalls, roleFromFailure>>
    /\ UNCHANGED dataVars

\* the dashboards' logout buttons: the owner's and the staff's call signOut,
\* the officer's calls handleLogout, which awaits signOut
SignOutVia(rt) ==
    CASE rt = "officer" -> "handleLogout"
      [] OTHER -> "signOut"

SignOutCall ==
    /\ mounted
    /\ route \in Dashboards
    /\ BagCardinality(signOutCalls) < MaxSignOut
    /\ signOutCalls' = signOutCalls (+) SetToBag({[via |-> SignOutVia(route)]})
    /\ UNCHANGED <<backendCred, profiles, mounted, epoch, session, loading,
                   userRole, listeners, sessionReqs, roleReqs, route, under,
                   timer, loginPc, loginUser, lastNav, roleFromFailure>>
    /\ UNCHANGED dataVars

\* supabase.auth.signOut() settles.  Resolved: the credential is removed, the
\* listener is notified with no session, signOut replaces the route by login
\* (and handleLogout does so once more).  Rejected: signOut's catch logs;
\* handleLogout, whose await of signOut returns normally, still navigates.
SignOutResponse(c, net) ==
    /\ BagIn(c, signOutCalls)
    /\ signOutCalls' = signOutCalls (-) SetToBag({c})
    /\ IF net = "ok"
       THEN /\ backendCred' = NULL
            /\ Notify(NULL)
            /\ route' = Navigate("login")
            /\ lastNav' = [by |-> "signOut", dest |-> "login", session |-> session',
                           role |-> userRole',
                           flag |-> (backendCred = NULL /\ session = NULL)]
       ELSE /\ UNCHANGED <<backendCred, session, userRole, roleReqs,
                           roleFromFailure>>
            /\ IF c.via = "handleLogout"
               THEN /\ route' = Navigate("login")
                    /\ lastNav' = [by |-> "handleLogout", dest |-> "login",
                                   session |-> session, role |-> userRole,
                                   flag |-> FALSE]
               ELSE UNCHANGED <<route, lastNav>>
    /\ timer' = SplashEffect(route', loading, session', userRole')
    /\ UNCHANGED <<profiles, mounted, epoch, loading, listeners, sessionReqs,
                   under, loginPc, loginUser>>
    /\ UNCHANGED dataVars

\* the auth service refreshes the token: a credential-changed event with the
\* session of the same user
TokenRefreshed ==
    /\ backendCred # NULL
    /\ mounted /\ epoch \in listeners
    /\ Notify(backendCred)
    /\ timer' = SplashEffect(route, loading, session', userRole')
    /\ UNCHANGED <<backendCred, profiles, mounted, epoch, loading, listeners,
                   sessionReqs, route, under, loginPc, loginUser, signOutCalls,
                   lastNav>>
    /\ UNCHANGED dataVars

\* the views a dashboard's buttons push
PushedFrom(rt) ==
    CASE rt = "staff" -> {"issueFine", "complaintReview"}
      [] rt = "officer" -> {"complaintReview"}
      [] OTHER -> {}

OpenView(v) ==
    /\ mounted
    /\ v \in PushedFrom(route)
    /\ route' = v
    /\ under' = route
    /\ UNCHANGED <<backendCred, profiles, mounted, epoch, session, loading,
                   userRole, listeners, sessionReqs, roleReqs, timer, loginPc,
                   loginUser, signOutCalls, lastNav, roleFromFailure>>
    /\ UNCHANGED dataVars

\* the header's back button of a pushed view
Back ==
    /\ mounted
    /\ route \in GuardedViews
    /\ route' = under
    /\ under' = "none"
    /\ UNCHANGED <<backendCred, profiles, mounted, epoch, session, loading,
                   userRole, listeners, sessionReqs, roleReqs, timer, loginPc,
                   loginUser, signOutCalls, lastNav, roleFromFailure>>
    /\ UNCHANGED dataVars

GetSessionSettles == \E ep \in 1..MaxMounts, net \in {"ok", "reject"} :
    GetSessionResponse(ep, net)
FetchUserRoleSettles == \E req \in BagToSet(roleReqs), net \in {"ok", "fail"} :
    FetchUserRoleResponse(req, net)
LoginSubmits == \E u \in Users : LoginSubmit(u)
SignInSettles == \E net \in {"ok", "error"} : SignInResponse(net)
LoginProfileSettles == \E net \in {"ok", "fail"} : LoginProfileResponse(net)
SignOutSettles == \E c \in BagToSet(signOutCalls), net \in {"ok", "reject"} :
    SignOutResponse(c, net)
OpenViews == \E v \in GuardedViews : OpenView(v)

Next ==
    \/ GetSessionSettles
    \/ FetchUserRoleSettles
    \/ TimerFire
    \/ LoginSubmits
    \/ SignInSettles
    \/ LoginProfileSettles
    \/ SignOutCall
    \/ SignOutSettles
    \/ TokenRefreshed
    \/ OpenViews
    \/ Back

Spec == Init /\ [][Next]_vars

\* The provider across teardown and re-initialisation of the root layout
NextMount ==
    \/ Mount
    \/ Unmount
    \/ GetSessionSettles
    \/ FetchUserRoleSettles
    \/ TokenRefreshed
    \/ TimerFire

SpecMount == Init /\ [][NextMount]_vars

\* The app opens with a stored credential and the backend answers every
\* request successfully: the credential check, the role lookup and the splash
\* timer, in any order
InitOpen == Init /\ backendCred # NULL

GetSessionSucceeds == GetSessionResponse(1, "ok")
FetchUserRoleSucceeds == \E req \in BagToSet(roleReqs) : FetchUserRoleResponse(req, "ok")

NextOpen ==
    \/ GetSessionSucceeds
    \/ FetchUserRoleSucceeds
    \/ TimerFire

SpecOpen == InitOpen /\ [][NextOpen]_vars

\* The app from its start to the splash screen's navigation: every request
\* sent settles, with an answer or an error, and an armed timer fires
NextStartup ==
    \/ GetSessionSettles
    \/ FetchUserRoleSettles
    \/ TokenRefreshed
    \/ TimerFire

SpecStartup ==
    /\ Init
    /\ [][NextStartup]_vars
    /\ WF_vars(GetSessionSettles)
    /\ WF_vars(FetchUserRoleSettles)
    /\ WF_vars(TimerFire)

\* ================================================================ data
\* The data screens run on clients whose session is settled: the state the
\* session specification reaches after the splash screen routed an owner
SessionSettled ==
    /\ backendCred = "u1"
    /\ profiles = [u \in Users |-> S_owner]
    /\ mounted = TRUE
    /\ epoch = 1
    /\ session = "u1"
    /\ loading = FALSE
    /\ userRole = S_owner
    /\ listeners = {1}
    /\ sessionReqs = {}
    /\ roleReqs = EmptyBag
    /\ route = "owner"
    /\ under = "none"
    /\ timer = NoTimer
    /\ loginPc = "idle"
    /\ loginUser = NULL
    /\ signOutCalls = EmptyBag
    /\ lastNav = [by |-> "splash", dest |-> "owner", session |-> "u1",
                  role |-> S_owner, flag |-> FALSE]
    /\ roleFromFailure = FALSE

\* time passes: by the term of a fine, or by a day more than that
Tick(e) ==
    /\ now + e <= MaxClock
    /\ now' = now + e
    /\ UNCHANGED <<sessionVars, deviceUser, vehicles, fines, tows, complaints,
                   notifications, vehicleList, vehicleDetail, fineList,
                   fineScreen, towForm, lastSubmit, reviewModal, lookup,
                   towDetails>>

\* ---------------------------------------------------------------- vehicle screens
\* VehicleListScreen.fetchVehicles
FetchVehicles(net) ==
    /\ deviceUser[OwnerClient] # NULL
    /\ IF net = "ok"
       THEN vehicleList' = SelectVehiclesByOwner(vehicles, deviceUser[OwnerClient])
       ELSE UNCHANGED vehicleList
    /\ UNCHANGED <<sessionVars, now, deviceUser, vehicles, fines, tows,
                   complaints, notifications, vehicleDetail, fineList,
                   fineScreen, towForm, lastSubmit, reviewModal, lookup,
                   towDetails>>

\* vehicle-details.fetchVehicleDetails for the route parameter id; a failure
\* ends in an alert and router.back()
FetchVehicleDetails(id, net) ==
    /\ id # NoId
    /\ deviceUser[OwnerClient] # NULL
    /\ LET res == SelectVehicleSingle(vehicles, id, deviceUser[OwnerClient], net) IN
       vehicleDetail' = IF res.error THEN NoId ELSE res.id
    /\ UNCHANGED <<sessionVars, now, deviceUser, vehicles, fines, tows,
                   complaints, notifications, vehicleList, fineList,
                   fineScreen, towForm, lastSubmit, reviewModal, lookup,
                   towDetails>>

\* vehicle-details.confirmDeleteVehicle: the Delete button of the confirmation;
\* success ends in router.back(), a failure in an alert on the open screen
ConfirmDeleteVehicle(net) ==
    /\ vehicleDetail # NoId
    /\ deviceUser[OwnerClient] # NULL
    /\ IF net = "ok"
       THEN /\ vehicles' = DeleteVehicle(vehicles, vehicleDetail, deviceUser[OwnerClient])
            /\ vehicleDetail' = NoId
       ELSE UNCHANGED <<vehicles, vehicleDetail>>
    /\ UNCHANGED <<sessionVars, now, deviceUser, fines, tows, complaints,
                   notifications, vehicleList, fineList, fineScreen, towForm,
                   lastSubmit, reviewModal, lookup, towDetails>>

\* vehicles of both owners and vehicles without an owner, one client
InitVehicles ==
    /\ SessionSettled
    /\ ScreensClosed
    /\ now = 0
    /\ deviceUser = [d \in Devices |-> "u1"]
    /\ fines = <<>>
    /\ tows = <<>>
    /\ complaints = <<>>
    /\ notifications = {}
    /\ \E o \in [1..MaxVehicles -> Users \cup {NULL}] :
          vehicles = [i \in 1..MaxVehicles |->
                         VehicleRow(o[i], IF i % 2 = 1 THEN P_A1 ELSE P_C2)]

NextVehicles ==
    \/ \E net \in {"ok", "error"} : FetchVehicles(net)
    \/ \E id \in 1..MaxVehicles, net \in {"ok", "error"} : FetchVehicleDetails(id, net)
    \/ \E net \in {"ok", "error"} : ConfirmDeleteVehicle(net)

SpecVehicles == InitVehicles /\ [][NextVehicles]_vars

\* ---------------------------------------------------------------- fine screens
\* IssueFineScreen.issueFine for the vehicle its search found; the form's
\* due_date is 30 days after the form was opened, here the day of the insert
IssueFine(v, valid, net) ==
    /\ v \in LiveVehicles(vehicles)
    /\ Len(fines) < MaxFines
    /\ deviceUser[StaffClient] # NULL
    /\ IF valid /\ net = "ok"
       THEN fines' = Append(fines, NewFine(v, now, now + DueDays, NoId))
       ELSE UNCHANGED fines
    /\ UNCHANGED <<sessionVars, now, deviceUser, vehicles, tows, complaints,
                   notifications, vehicleList, vehicleDetail, fineList,
                   fineScreen, towForm, lastSubmit, reviewModal, lookup,
                   towDetails>>

\* FineHistoryScreen.fetchFineHistory with the vehicle and status filters the
\* screen holds, and the render of the list it sets
FetchFineHistory(selectedVehicleId, statusFilter, net) ==
    /\ deviceUser[OwnerClient] # NULL
    /\ selectedVehicleId \in
          {NoId} \cup SelectVehiclesByOwner(vehicles, deviceUser[OwnerClient])
    /\ IF net = "ok"
       THEN fineList' =
                 [filter |-> statusFilter,
                  items |-> {[id |-> r.id, status |-> r.status,
                              vehicles |-> r.vehicles,
                              shown |-> ListBadge(r.status)] :
                             r \in SelectFineHistory(fines, vehicles,
                                       deviceUser[OwnerClient],
                                       selectedVehicleId, statusFilter)}]
       ELSE UNCHANGED fineList
    /\ UNCHANGED <<sessionVars, now, deviceUser, vehicles, fines, tows,
                   complaints, notifications, vehicleList, vehicleDetail,
                   fineScreen, towForm, lastSubmit, reviewModal, lookup,
                   towDetails>>

\* a render of FineDetailsScreen: the status badge is computed from the local
\* fineDetails and the time of the render
Rendered(scr) ==
    IF scr.fine = NoId THEN scr
    ELSE [scr EXCEPT !.shown = DetailBadge(scr.status, fines[scr.fine].due_date, now)]

\* FineDetailsScreen opened on client d for the route parameter id:
\* fetchFineDetails and the render of what it set
FetchFineDetails(d, id, net) ==
    /\ id # NoId
    /\ deviceUser[d] # NULL
    /\ ~fineScreen[d].processing
    /\ LET res == FetchFineOutcome(fines, vehicles, id, deviceUser[d], net) IN
       IF res = "ok"
       THEN fineScreen' = [fineScreen EXCEPT ![d] =
                   [fine |-> id, vehicle_id |-> fines[id].vehicle_id,
                    status |-> fines[id].status,
                    shown |-> DetailBadge(fines[id].status, fines[id].due_date, now),
                    modal |-> FALSE, processing |-> FALSE,
                    payment_date |-> NoDate, transaction_id |-> NoTx,
                    alert |-> "none"]]
       ELSE fineScreen' = [fineScreen EXCEPT ![d] = FineScreenClosed(res)]
    /\ UNCHANGED <<sessionVars, now, deviceUser, vehicles, fines, tows,
                   complaints, notifications, vehicleList, vehicleDetail,
                   fineList, towForm, lastSubmit, reviewModal, lookup,
                   towDetails>>

\* FineDetailsScreen.handlePayFine: the Pay button, drawn while the local
\* status is not paid; on a paid fine it would answer 'Already Paid' 
HandlePayFine(d) ==
    /\ fineScreen[d].fine # NoId
    /\ fineScreen[d].status # "paid"
    /\ ~fineScreen[d].modal
    /\ IF fineScreen[d].status = "paid"
       THEN UNCHANGED fineScreen
       ELSE fineScreen' = [fineScreen EXCEPT
                ![d] = Rendered([fineScreen[d] EXCEPT !.modal = TRUE])]
    /\ UNCHANGED <<sessionVars, now, deviceUser, vehicles, fines, tows,
                   complaints, notifications, vehicleList, vehicleDetail,
                   fineList, towForm, lastSubmit, reviewModal, lookup,
                   towDetails>>

\* FineDetailsScreen.processPayment up to its await: the Confirm button of the
\* payment modal, disabled while processingPayment
ProcessPayment(d, r) ==
    /\ fineScreen[d].fine # NoId
    /\ deviceUser[d] # NULL
    /\ fineScreen[d].modal
    /\ ~fineScreen[d].processing
    /\ fineScreen' = [fineScreen EXCEPT ![d] =
           Rendered([fineScreen[d] EXCEPT
               !.processing = TRUE,
               !.payment_date = now,
               !.transaction_id = MockTransactionId(r, now)])]
    /\ UNCHANGED <<sessionVars, now, deviceUser, vehicles, fines, tows,
                   complaints, notifications, vehicleList, vehicleDetail,
                   fineList, towForm, lastSubmit, reviewModal, lookup,
                   towDetails>>

\* the Cancel button of the payment modal, disabled while processingPayment
CancelPayment(d) ==
    /\ fineScreen[d].modal
    /\ ~fineScreen[d].processing
    /\ fineScreen' = [fineScreen EXCEPT
           ![d] = Rendered([fineScreen[d] EXCEPT !.modal = FALSE])]
    /\ UNCHANGED <<sessionVars, now, deviceUser, vehicles, fines, tows,
                   complaints, notifications, vehicleList, vehicleDetail,
                   fineList, towForm, lastSubmit, reviewModal, lookup,
                   towDetails>>

\* the update of processPayment is applied and answers, or fails
PaymentResponse(d, net) ==
    /\ fineScreen[d].processing
    /\ IF net = "ok"
       THEN /\ fines' = PaymentUpdate(fines, fineScreen[d].fine,
                            fineScreen[d].vehicle_id, fineScreen[d].payment_date,
                            fineScreen[d].transaction_id)
            /\ fineScreen' = [fineScreen EXCEPT ![d] =
                   Rendered([fineScreen[d] EXCEPT
                       !.status = "paid",
                       !.modal = FALSE,
                       !.processing = FALSE,
                       !.payment_date = NoDate,
                       !.transaction_id = NoTx])]
       ELSE /\ fineScreen' = [fineScreen EXCEPT ![d] =
                   Rendered([fineScreen[d] EXCEPT
                       !.processing = FALSE,
                       !.payment_date = NoDate,
                       !.transaction_id = NoTx])]
            /\ UNCHANGED fines
    /\ UNCHANGED <<sessionVars, now, deviceUser, vehicles, tows, complaints,
                   notifications, vehicleList, vehicleDetail, fineList,
                   towForm, lastSubmit, reviewModal, lookup, towDetails>>

\* one vehicle of each owner; both clients hold a session of owner u1
InitFines ==
    /\ SessionSettled
    /\ ScreensClosed
    /\ now = 0
    /\ deviceUser = [d \in Devices |-> "u1"]
    /\ vehicles = <<VehicleRow("u1", P_A1), VehicleRow("u2", P_C2)>>
    /\ fines = <<>>
    /\ tows = <<>>
    /\ complaints = <<>>
    /\ notifications = {}

NextFines ==
    \/ \E e \in Elapses : Tick(e)
    \/ \E v \in 1..MaxVehicles, valid \in BOOLEAN, net \in {"ok", "error"} :
          IssueFine(v, valid, net)
    \/ \E sel \in 0..MaxVehicles, f \in FineStatusFilters, net \in {"ok", "error"} :
          FetchFineHistory(sel, f, net)
    \/ \E d \in Devices, id \in 1..MaxFines, net \in {"ok", "error"} :
          FetchFineDetails(d, id, net)
    \/ \E d \in Devices : HandlePayFine(d)
    \/ \E d \in Devices : CancelPayment(d)
    \/ \E d \in Devices, r \in TxRandoms : ProcessPayment(d, r)
    \/ \E d \in Devices, net \in {"ok", "error"} : PaymentResponse(d, net)

SpecFines == InitFines /\ [][NextFines]_vars

\* ---------------------------------------------------------------- tow screens
\* RecordTowScreen: the license plate field is edited (onChangeText); the
\* vehicle an earlier search found stays
SetLicensePlate(p) ==
    /\ towForm' = [towForm EXCEPT !.licensePlate = p]
    /\ UNCHANGED <<sessionVars, now, deviceUser, vehicles, fines, tows,
                   complaints, notifications, vehicleList, vehicleDetail,
                   fineList, fineScreen, lastSubmit, reviewModal, lookup,
                   towDetails>>

\* RecordTowScreen.searchVehicle on a plate that is not blank: what it makes
\* of the form and what it tells.  One match, or the first of several,
\* becomes vehicleFound; the order of the answer's rows is the database's
SearchOutcomes(table, typed, net1, net2) ==
    LET query == FormatPlate(typed)
        res == SearchRows(table, query, net1, net2)
    IN  {[form |-> [licensePlate |-> typed, vehicleFound |-> v],
          told |-> [screen |-> "tow", typed |-> typed, query |-> query,
                    passes |-> res.passes, vehicle |-> v, fromTow |-> NoId,
                    alert |-> IF res.error
                              THEN "Failed to search for the vehicle. Please try again."
                              ELSE IF Cardinality(res.rows) > 1
                              THEN "Multiple Matches" ELSE "none",
                    notFound |-> ~res.error /\ res.rows = {}]] :
            v \in IF res.rows = {} THEN {NoId} ELSE res.rows}

\* RecordTowScreen.searchVehicle; a blank plate is refused with an alert
SearchVehicle(net1, net2) ==
    /\ IF Len(Trim(towForm.licensePlate)) = 0
       THEN /\ UNCHANGED towForm
            /\ lookup' = [Mounted(lookup, "tow") EXCEPT
                             !.typed = towForm.licensePlate,
                             !.query = FormatPlate(towForm.licensePlate),
                             !.passes = <<>>,
                             !.alert = "Please enter a license plate number"]
       ELSE \E o \in SearchOutcomes(vehicles, towForm.licensePlate, net1, net2) :
               towForm' = o.form /\ lookup' = o.told
    /\ UNCHANGED <<sessionVars, now, deviceUser, vehicles, fines, tows,
                   complaints, notifications, vehicleList, vehicleDetail,
                   fineList, fineScreen, lastSubmit, reviewModal, towDetails>>

\* the vehicle_id handleSubmitTow writes into the tow: the vehicle found, the
\* vehicle it created, or undefined when that creation failed
SubmitVehicleId(found, table, netV) ==
    IF found # NoId THEN found
    ELSE IF netV = "ok" THEN Len(table) + 1
    ELSE NoId

\* RecordTowScreen.handleSubmitTow, from the validation of the form to the
\* alert; valid: location, reason and the fine fields pass the validation;
\* netV: the answer to the vehicle insert; fails: the insert after it that
\* fails, if one does; info: the make, model and color fields of the form.
\* The OK of the success alert resets the form.
HandleSubmitTow(valid, issueFineToo, info, netV, fails) ==
    LET found == towForm.vehicleFound
        plate == FormatPlate(towForm.licensePlate)
        vid == SubmitVehicleId(found, vehicles, netV)
        towId == Len(tows) + 1
        fineStep == issueFineToo /\ vid # NoId
        notifyStep == found # NoId /\ vehicles[found].owner_id # NULL
        netT == IF fails = "tow" THEN "error" ELSE "ok"
        netF == IF fails = "fine" THEN "error" ELSE "ok"
        failed == fails
    IN
    /\ Len(tows) < MaxTows
    /\ found # NoId => netV = "ok"
    /\ fails = "fine" => fineStep
    /\ fails = "notification" => notifyStep
    /\ found # NoId \/ netV # "ok" \/ Len(vehicles) < MaxVehicles
    /\ ~fineStep \/ netT # "ok" \/ netF # "ok" \/ Len(fines) < MaxFines
    /\ IF Len(Trim(towForm.licensePlate)) = 0 \/ ~valid
       THEN UNCHANGED <<vehicles, tows, fines, notifications, towForm, lastSubmit,
                        lookup>>
       ELSE /\ vehicles' = IF found = NoId /\ netV = "ok"
                           THEN Append(vehicles, NewVehicleData(plate, info))
                           ELSE vehicles
            /\ tows' = IF netT = "ok" THEN Append(tows, NewTow(vid, plate)) ELSE tows
            /\ fines' = IF netT = "ok" /\ fineStep /\ netF = "ok"
                        THEN Append(fines, NewFine(vid, now, now + DueDays, towId))
                        ELSE fines
            /\ notifications' =
                 IF failed = "none" /\ notifyStep
                 THEN notifications \cup
                        {[user_id |-> vehicles[found].owner_id, type |-> "tow",
                          related_id |-> towId]}
                 ELSE notifications
            /\ lastSubmit' = [failed |-> failed,
                              tow |-> IF netT = "ok" THEN towId ELSE NoId,
                              alert |-> SubmitAlert(failed, issueFineToo),
                              found |-> found, info |-> info]
            /\ towForm' = IF failed \in {"tow", "fine"} THEN towForm ELSE EmptyTowForm
            /\ lookup' = IF failed \in {"tow", "fine"} THEN lookup ELSE NoLookup
    /\ UNCHANGED <<sessionVars, now, deviceUser, complaints, vehicleList,
                   vehicleDetail, fineList, fineScreen, reviewModal, towDetails>>

\* the owner of a tow's vehicle, as the update handlers look it up
TowOwner(row) ==
    IF row.vehicle_id \in LiveVehicles(vehicles)
    THEN vehicles[row.vehicle_id].owner_id ELSE NULL

\* TowRequestsScreen.updateRequestStatus from the Accept, Reject or Complete
\* button of a request, with the notification of the owner it sends
UpdateRequestStatus(id, newStatus, net) ==
    /\ id \in DOMAIN tows
    /\ deviceUser[StaffClient] # NULL
    /\ newStatus \in RequestButtons(tows[id])
    /\ IF net = "ok"
       THEN /\ tows' = [tows EXCEPT ![id] = RequestUpdate(tows[id], newStatus)]
            /\ notifications' =
                 IF newStatus \in {"accepted", "completed"} /\ TowOwner(tows[id]) # NULL
                 THEN notifications \cup
                        {[user_id |-> TowOwner(tows[id]),
                          type |-> IF newStatus = "accepted" THEN "tow_accepted"
                                   ELSE "tow_completed",
                          related_id |-> id]}
                 ELSE notifications
       ELSE UNCHANGED <<tows, notifications>>
    /\ UNCHANGED <<sessionVars, now, deviceUser, vehicles, fines, complaints,
                   vehicleList, vehicleDetail, fineList, fineScreen, towForm,
                   lastSubmit, reviewModal, lookup, towDetails>>

\* the tow details screen of the staff is opened on a tow: fetchTowDetails
FetchTowDetails(id, net) ==
    /\ id \in DOMAIN tows
    /\ deviceUser[StaffClient] # NULL
    /\ towDetails' = LoadedTow(tows, vehicles, id, net)
    /\ UNCHANGED <<sessionVars, now, deviceUser, vehicles, fines, tows,
                   complaints, notifications, vehicleList, vehicleDetail,
                   fineList, fineScreen, towForm, lastSubmit, reviewModal,
                   lookup>>

\* the tow details screen of the staff: handleUpdateStatus from the buttons
\* drawn for towDetails, and the fetchTowDetails that follows the update
HandleUpdateStatus(newStatus, net, refetch) ==
    LET id == towDetails.id IN
    /\ id # NoId
    /\ deviceUser[StaffClient] # NULL
    /\ newStatus \in StatusButtons(towDetails)
    /\ IF net = "ok"
       THEN /\ tows' = [tows EXCEPT ![id] = StatusUpdate(tows[id], towDetails, newStatus)]
            /\ notifications' =
                 IF towDetails.owner # NULL
                 THEN notifications \cup
                        {[user_id |-> towDetails.owner, type |-> "tow_update",
                          related_id |-> id]}
                 ELSE notifications
            /\ towDetails' = LoadedTow(tows', vehicles, id, refetch)
       ELSE UNCHANGED <<tows, notifications, towDetails>>
    /\ UNCHANGED <<sessionVars, now, deviceUser, vehicles, fines, complaints,
                   vehicleList, vehicleDetail, fineList, fineScreen, towForm,
                   lastSubmit, reviewModal, lookup>>

Answers == {"ok", "error"}

\* the data screens closed but for the record-tow form, which is as a search
\* of one of the plates left it
SearchedForm(plates) ==
    /\ vehicleList = {}
    /\ vehicleDetail = NoId
    /\ fineList = NoFineList
    /\ fineScreen = [d \in Devices |-> NoFineScreen]
    /\ \E typed \in plates : \E o \in SearchOutcomes(vehicles, typed, "ok", "ok") :
          towForm = o.form /\ lookup = o.told
    /\ lastSubmit = NoSubmit
    /\ reviewModal = ClosedModal
    /\ towDetails = NoTowDetails

\* a vehicle with an owner and a vehicle without one; no tow yet, or a tow
\* that waits as a new request; the staff's client is u2's
InitTows ==
    /\ SessionSettled
    /\ now = 0
    /\ deviceUser = [d \in Devices |-> IF d = StaffClient THEN "u2" ELSE "u1"]
    /\ vehicles = <<VehicleRow("u1", P_A1), VehicleRow(NULL, P_C2)>>
    /\ fines = <<>>
    /\ tows \in {<<>>, <<[NewTow(1, P_A1) EXCEPT !.status = "pending"]>>}
    /\ complaints = <<>>
    /\ notifications = {}
    /\ SearchedForm({P_a1sp, P_C2, P_e3})

NextTows ==
    \/ \E valid \in BOOLEAN, issueFineToo \in BOOLEAN, info \in VehicleInputs,
          netV \in Answers, fails \in {"none", "tow", "fine", "notification"} :
          HandleSubmitTow(valid, issueFineToo, info, netV, fails)
    \/ \E id \in 1..MaxTows, newStatus \in {"accepted", "rejected", "completed"},
          net \in Answers :
          UpdateRequestStatus(id, newStatus, net)
    \/ \E id \in 1..MaxTows, net \in Answers \cup {"no profile"} :
          FetchTowDetails(id, net)
    \/ \E newStatus \in {"completed", "active"}, net \in Answers, refetch \in Answers :
          HandleUpdateStatus(newStatus, net, refetch)

SpecTows == InitTows /\ [][NextTows]_vars

\* ---------------------------------------------------------------- plate lookups
\* IssueFineScreen.searchVehicle, typed being the text of its plate field: an
\* error of either query is thrown into the catch, which alerts and leaves
\* the vehicle state as it was
IssueFineSearchVehicle(typed, net1, net2) ==
    LET query == FormatPlate(typed)
        p1 == PlatePass("vehicles", vehicles, LiveVehicles(vehicles), "exact",
                        query, net1)
        p2 == PlatePass("vehicles", vehicles, LiveVehicles(vehicles), "substring",
                        query, net2)
        passes == IF net1 = "error" \/ p1.rows # {} THEN <<p1>> ELSE <<p1, p2>>
        failed == passes[Len(passes)].net = "error"
        rows == passes[Len(passes)].rows
    IN
    /\ deviceUser[StaffClient] # NULL
    /\ IF Len(Trim(typed)) = 0
       THEN UNCHANGED lookup
       ELSE \E v \in IF failed THEN {Mounted(lookup, "fine").vehicle}
                     ELSE IF rows = {} THEN {NoId} ELSE rows :
               lookup' =
                   [screen |-> "fine", typed |-> typed, query |-> query,
                    passes |-> passes, vehicle |-> v, fromTow |-> NoId,
                    alert |-> IF failed THEN "Failed to search for vehicle"
                              ELSE IF rows = {} THEN "No Results"
                              ELSE IF Len(passes) = 2 /\ Cardinality(rows) > 1
                              THEN "Multiple Matches" ELSE "none",
                    notFound |-> ~failed /\ rows = {}]
    /\ UNCHANGED <<sessionVars, now, deviceUser, vehicles, fines, tows,
                   complaints, notifications, vehicleList, vehicleDetail,
                   fineList, fineScreen, towForm, lastSubmit, reviewModal,
                   towDetails>>

\* VehicleSearchScreen.searchVehicle, typed being the text of its plate field:
\* each query that answers without a row, or fails, is followed by the next
\* one, on vehicles and then on tows; a vehicle found only in tows is shown
\* from the tow row.  Its history, fetched afterwards, is not followed.
VehicleSearchScreenSearchVehicle(typed, net1, net2, netT1, netT2) ==
    LET query == FormatPlate(typed)
        p1 == PlatePass("vehicles", vehicles, LiveVehicles(vehicles), "exact",
                        query, net1)
        p2 == PlatePass("vehicles", vehicles, LiveVehicles(vehicles), "substring",
                        query, net2)
        t1 == PlatePass("tows", tows, DOMAIN tows, "exact", query, netT1)
        t2 == PlatePass("tows", tows, DOMAIN tows, "substring", query, netT2)
        vpasses == IF p1.rows # {} THEN <<p1>> ELSE <<p1, p2>>
        vrows == vpasses[Len(vpasses)].rows
        tpasses == IF vrows # {} THEN <<>>
                   ELSE IF t1.rows # {} THEN <<t1>> ELSE <<t1, t2>>
        trows == IF tpasses = <<>> THEN {} ELSE tpasses[Len(tpasses)].rows
    IN
    /\ IF Len(Trim(typed)) = 0
       THEN lookup' = [Mounted(lookup, "search") EXCEPT
                          !.typed = typed, !.query = query, !.passes = <<>>,
                          !.alert = "Please enter a license plate number"]
       ELSE \E v \in IF vrows # {} THEN vrows ELSE {NoId},
               t \in IF trows # {} THEN trows ELSE {NoId} :
               lookup' =
                   [screen |-> "search", typed |-> typed, query |-> query,
                    passes |-> vpasses \o tpasses,
                    vehicle |-> IF t # NoId THEN tows[t].vehicle_id ELSE v,
                    fromTow |-> t, alert |-> "none",
                    notFound |-> vrows = {} /\ trows = {}]
    /\ UNCHANGED <<sessionVars, now, deviceUser, vehicles, fines, tows,
                   complaints, notifications, vehicleList, vehicleDetail,
                   fineList, fineScreen, towForm, lastSubmit, reviewModal,
                   towDetails>>

\* two vehicles whose plates share a prefix, a vehicle without an owner, and a
\* tow whose plate no vehicle has
InitLookup ==
    /\ SessionSettled
    /\ ScreensClosed
    /\ now = 0
    /\ deviceUser = [d \in Devices |-> IF d = StaffClient THEN "u2" ELSE "u1"]
    /\ vehicles = <<VehicleRow("u1", P_A1), VehicleRow("u2", P_A1C),
                    VehicleRow(NULL, P_C2)>>
    /\ fines = <<>>
    /\ tows = <<NewTow(NoId, FormatPlate(P_e3))>>
    /\ complaints = <<>>
    /\ notifications = {}

NextLookup ==
    \/ \E p \in TypedLookups : SetLicensePlate(p)
    \/ \E net1 \in Answers, net2 \in Answers : SearchVehicle(net1, net2)
    \/ \E typed \in TypedLookups, net1 \in Answers, net2 \in Answers :
          IssueFineSearchVehicle(typed, net1, net2)
    \/ \E typed \in TypedLookups, net1 \in Answers, net2 \in Answers,
          netT1 \in Answers, netT2 \in Answers :
          VehicleSearchScreenSearchVehicle(typed, net1, net2, netT1, netT2)

SpecLookup == InitLookup /\ [][NextLookup]_vars

\* every handler that writes a fine: the two inserts and the payment.  The
\* record-tow form starts as a search left it: with the vehicle of u1 found,
\* or with a plate no vehicle has
InitFineWrites ==
    /\ SessionSettled
    /\ now = 0
    /\ deviceUser = [d \in Devices |-> "u1"]
    /\ vehicles = <<VehicleRow("u1", P_A1), VehicleRow("u2", P_C2)>>
    /\ fines = <<>>
    /\ tows = <<>>
    /\ complaints = <<>>
    /\ notifications = {}
    /\ SearchedForm({P_a1sp, P_e3})

NextFineWrites ==
    \/ \E e \in Elapses : Tick(e)
    \/ \E v \in 1..MaxVehicles, valid \in BOOLEAN, net \in {"ok", "error"} :
          IssueFine(v, valid, net)
    \/ \E valid \in BOOLEAN, issueFineToo \in BOOLEAN, info \in VehicleInputs,
          netV \in Answers, fails \in {"none", "tow", "fine", "notification"} :
          HandleSubmitTow(valid, issueFineToo, info, netV, fails)
    \/ \E id \in 1..MaxFines, net \in Answers : FetchFineDetails(OwnerClient, id, net)
    \/ \E d \in Devices : HandlePayFine(d)
    \/ \E d \in Devices : CancelPayment(d)
    \/ \E d \in Devices, r \in TxRandoms : ProcessPayment(d, r)
    \/ \E d \in Devices, net \in {"ok", "error"} : PaymentResponse(d, net)

SpecFineWrites == InitFineWrites /\ [][NextFineWrites]_vars

\* ---------------------------------------------------------------- complaint screens
\* ComplaintScreen: the owner submits a complaint
SubmitComplaint(net) ==
    /\ Len(complaints) < MaxComplaints
    /\ IF net = "ok"
       THEN complaints' = Append(complaints, NewComplaint(deviceUser[OwnerClient]))
       ELSE UNCHANGED complaints
    /\ UNCHANGED <<sessionVars, now, deviceUser, vehicles, fines, tows,
                   notifications, vehicleList, vehicleDetail, fineList,
                   fineScreen, towForm, lastSubmit, reviewModal, lookup,
                   towDetails>>

\* ComplaintReviewScreen.updateComplaintStatus: the update, the notification
\* of the complaint's author, and the finally block that closes the modal
UpdateComplaintStatus(id, newStatus, response, net) ==
    /\ deviceUser[StaffClient] # NULL
    /\ IF net = "ok"
       THEN /\ complaints' = [complaints EXCEPT ![id] =
                   ComplaintUpdate(complaints[id], newStatus, response,
                                   deviceUser[StaffClient], now)]
            /\ notifications' = notifications \cup
                   {[user_id |-> complaints[id].user_id, type |-> "complaint_update",
                     related_id |-> id]}
       ELSE UNCHANGED <<complaints, notifications>>
    /\ reviewModal' = ClosedModal

\* handleStatusChange from the Mark In Review button, or from the Resolve
\* button and the Resolve of its confirmation: no response is passed
HandleStatusChange(id, newStatus, net) ==
    /\ id \in DOMAIN complaints
    /\ newStatus \in ComplaintButtons(complaints[id])
    /\ UpdateComplaintStatus(id, newStatus, NoText, net)
    /\ UNCHANGED <<sessionVars, now, deviceUser, vehicles, fines, tows,
                   vehicleList, vehicleDetail, fineList, fineScreen, towForm,
                   lastSubmit, lookup, towDetails>>

\* handleOpenResponseModal from the Respond button of a complaint
HandleOpenResponseModal(id) ==
    /\ id \in DOMAIN complaints
    /\ reviewModal' =
         [complaint |-> id, selectedStatus |-> complaints[id].status,
          responseText |-> IF HasResponse(complaints[id].response)
                           THEN complaints[id].response ELSE <<>>]
    /\ UNCHANGED <<sessionVars, now, deviceUser, vehicles, fines, tows,
                   complaints, notifications, vehicleList, vehicleDetail,
                   fineList, fineScreen, towForm, lastSubmit, lookup,
                   towDetails>>

\* the status options of the response modal
SetSelectedStatus(s) ==
    /\ reviewModal.complaint # NoId
    /\ reviewModal' = [reviewModal EXCEPT !.selectedStatus = s]
    /\ UNCHANGED <<sessionVars, now, deviceUser, vehicles, fines, tows,
                   complaints, notifications, vehicleList, vehicleDetail,
                   fineList, fineScreen, towForm, lastSubmit, lookup,
                   towDetails>>

\* the response field of the modal is edited
SetResponseText(t) ==
    /\ reviewModal.complaint # NoId
    /\ reviewModal' = [reviewModal EXCEPT !.responseText = t]
    /\ UNCHANGED <<sessionVars, now, deviceUser, vehicles, fines, tows,
                   complaints, notifications, vehicleList, vehicleDetail,
                   fineList, fineScreen, towForm, lastSubmit, lookup,
                   towDetails>>

\* handleSubmitResponse: a blank response is refused with an alert
HandleSubmitResponse(net) ==
    /\ reviewModal.complaint # NoId
    /\ IF Len(Trim(reviewModal.responseText)) = 0
       THEN UNCHANGED <<complaints, notifications, reviewModal>>
       ELSE UpdateComplaintStatus(reviewModal.complaint, reviewModal.selectedStatus,
                                  reviewModal.responseText, net)
    /\ UNCHANGED <<sessionVars, now, deviceUser, vehicles, fines, tows,
                   vehicleList, vehicleDetail, fineList, fineScreen, towForm,
                   lastSubmit, lookup, towDetails>>

\* no complaint yet; the owner's client is u1's, the staff's client is u2's
InitComplaints ==
    /\ SessionSettled
    /\ ScreensClosed
    /\ now = 0
    /\ deviceUser = [d \in Devices |-> IF d = StaffClient THEN "u2" ELSE "u1"]
    /\ vehicles = <<>>
    /\ fines = <<>>
    /\ tows = <<>>
    /\ complaints = <<>>
    /\ notifications = {}

NextComplaints ==
    \/ \E e \in Elapses : Tick(e)
    \/ \E net \in Answers : SubmitComplaint(net)
    \/ \E id \in 1..MaxComplaints, newStatus \in {"in_review", "resolved"},
          net \in Answers :
          HandleStatusChange(id, newStatus, net)
    \/ \E id \in 1..MaxComplaints : HandleOpenResponseModal(id)
    \/ \E s \in ComplaintStatuses : SetSelectedStatus(s)
    \/ \E t \in TypedTexts : SetResponseText(t)
    \/ \E net \in Answers : HandleSubmitResponse(net)

SpecComplaints == InitComplaints /\ [][NextComplaints]_vars

\* ---------------------------------------------------------------- claims
\* the role values that are owner, staff or officer up to letter case
RecognizedRoles == {S_owner, S_staff, S_officer, S_OWNER, S_Staff}

DashboardOfRole(r) ==
    CASE r = S_owner -> "owner"
      [] r = S_staff -> "staff"
      [] r = S_officer -> "officer"
      [] OTHER -> "login"

\* C1: every navigation of the splash screen follows the router's table: no
\* session -> login; a session with role null -> login; role owner, staff,
\* officer -> that role's dashboard; the destination is always one of the
\* four, and is a function of (session, role) alone.
C1_RouterTable ==
    lastNav.by = "splash" =>
        /\ lastNav.dest \in Dashboards \cup {"login"}
        /\ (lastNav.session = NULL => lastNav.dest = "login")
        /\ (lastNav.session # NULL /\ lastNav.role = NULLROLE => lastNav.dest = "login")
        /\ (lastNav.session # NULL /\ lastNav.role = S_owner => lastNav.dest = "owner")
        /\ (lastNav.session # NULL /\ lastNav.role = S_staff => lastNav.dest = "staff")
        /\ (lastNav.session # NULL /\ lastNav.role = S_officer => lastNav.dest = "officer")

C1_Witness ==
    /\ lastNav.by = "splash"
    /\ lastNav.session # NULL
    /\ lastNav.role = S_officer
    /\ route = "officer"

\* C2: a role value that is not owner, staff or officer up to letter case
\* never takes the splash path or the login path to a dashboard: the splash
\* path goes to login, the login path does not navigate.
C2_UnknownRoleFailsClosed ==
    /\ (lastNav.by = "splash" /\ lastNav.session # NULL
            /\ lastNav.role \notin RecognizedRoles) => lastNav.dest = "login"
    /\ (lastNav.by = "login" /\ ~lastNav.flag
            /\ lastNav.role \notin RecognizedRoles) => lastNav.dest = "none"
    /\ (lastNav.by = "login" /\ lastNav.dest \in Dashboards) =>
            lastNav.role \in RecognizedRoles

C2_Witness ==
    /\ lastNav.by = "splash"
    /\ lastNav.session # NULL
    /\ lastNav.role = S_admin
    /\ route = "login"

\* C3 (as claimed): whenever the splash navigation fires, no fetchUserRole
\* request for the session's user is in flight.
C3_SplashWaitsForLookup == lastNav.by = "splash" => ~lastNav.flag

\* C4 (as claimed): opened with a credential whose profile holds owner, staff
\* or officer, and with every backend answer successful, the splash screen
\* navigates to that role's dashboard, never to login.
C4_OpenEndsOnDashboard ==
    (lastNav.by = "splash" /\ backendCred # NULL
        /\ profiles[backendCred] \in {S_owner, S_staff, S_officer}) =>
            lastNav.dest = DashboardOfRole(profiles[backendCred])

\* C5 (as claimed): userRole is non-null only if a session is present and
\* that session's user's profile holds that role.
C5_RoleOnlyWithSession ==
    userRole # NULLROLE => (session # NULL /\ profiles[session] = userRole)

\* C6 (as claimed): while the session is user B's, the exposed role is never
\* the role of another user A.
C6_NoStaleRole ==
    \A a \in Users :
        (session # NULL /\ a # session /\ profiles[a] # profiles[session]
            /\ userRole # NULLROLE) => userRole # profiles[a]

C8_OneSubscription ==
    /\ mounted => listeners = {epoch}
    /\ ~mounted => listeners = {}
    /\ Cardinality(listeners) <= 1

C8_Witness == mounted /\ epoch = 2 /\ listeners = {2} /\ ~loading

\* C9 (as claimed): a role lookup whose backend request failed is not
\* exposed to the consumers as role = null.
C9_FailureIsNotNullRole == roleFromFailure => userRole # NULLROLE

\* C10 (as claimed): no protected view fetches its data or renders its
\* screen while the session's role is null.
C10_NoViewWithoutRole == ProtectedViewActive => userRole # NULLROLE

\* ---------------------------------------------------------------- claims C11-C20
\* C11: every vehicle the owner's list shows, the vehicle the owner's detail
\* screen shows and every vehicle the owner's delete removes has owner_id
\* equal to the session user's id: never a vehicle of another owner, never a
\* vehicle whose owner_id is null.
C11_OwnVehiclesOnly ==
    [][/\ \A v \in vehicleList' : vehicles[v].owner_id = deviceUser[OwnerClient]
       /\ vehicleDetail' # NoId =>
             vehicles[vehicleDetail'].owner_id = deviceUser[OwnerClient]
       /\ \A v \in DOMAIN vehicles :
             (~vehicles[v].deleted /\ vehicles'[v].deleted) =>
                 vehicles[v].owner_id = deviceUser[OwnerClient]]_vars

C11_Witness ==
    /\ vehicleList # {}
    /\ \E v \in DOMAIN vehicles : vehicles[v].deleted
    /\ \E v \in LiveVehicles(vehicles) : vehicles[v].owner_id = "u2"
    /\ \E v \in LiveVehicles(vehicles) : vehicles[v].owner_id = NULL

\* the owner of the vehicle a fine is for
FineOwner(i) == vehicles[fines[i].vehicle_id].owner_id

\* C12 (as claimed): the fine history list of an owner holds no fine of a
\* vehicle owned by someone else, and the fine detail screen displays (and
\* offers to pay) a fine only when its vehicle's owner_id is the session user.
C12_OwnFinesOnly ==
    /\ \A item \in fineList.items : FineOwner(item.id) = deviceUser[OwnerClient]
    /\ \A d \in Devices :
          fineScreen[d].fine # NoId => FineOwner(fineScreen[d].fine) = deviceUser[d]

\* C13 (as claimed): once a fine is paid, no later payment changes its
\* payment_date or its transaction_id.
C13_PaidFineNotOverwritten ==
    [][\A i \in DOMAIN fines :
          fines[i].status = "paid" =>
              /\ fines'[i].payment_date = fines[i].payment_date
              /\ fines'[i].transaction_id = fines[i].transaction_id]_vars

\* C14: every fine has payment_date and transaction_id both absent or both
\* present, present exactly when its status is paid, and a paid fine stays paid.
C14_PaymentFieldsWithPaid ==
    [][/\ \A i \in DOMAIN fines' :
             /\ (fines'[i].payment_date = NoDate) <=> (fines'[i].transaction_id = NoTx)
             /\ (fines'[i].status = "paid") <=> (fines'[i].payment_date # NoDate)
       /\ \A i \in DOMAIN fines : fines[i].status = "paid" => fines'[i].status = "paid"]_vars

C14_Witness ==
    /\ tows # <<>>
    /\ \E i \in DOMAIN fines :
          fines[i].status = "paid" /\ fines[i].payment_date > 0
             /\ fines[i].transaction_id # NoTx
    /\ \E i \in DOMAIN fines : fines[i].status = "unpaid"

\* the status a read of a fine is to show at time t
DerivedStatus(status, due, t) ==
    IF status = "unpaid" /\ t > due THEN "overdue" ELSE status

\* C15 (as claimed): whenever the history list or the detail screen is
\* rendered anew, each fine shows 'overdue' exactly when its status is unpaid
\* and the time of the read is after its due date, 'paid' when it is paid;
\* a list read under a status filter holds the fines whose shown status is it.
C15_OverdueDerivedAtRead ==
    [][/\ fineList' # fineList =>
             \A item \in fineList'.items :
                 /\ item.shown = DerivedStatus(item.status, fines[item.id].due_date, now)
                 /\ fineList'.filter # NULL => item.shown = fineList'.filter
       /\ \A d \in Devices :
             (fineScreen'[d] # fineScreen[d] /\ fineScreen'[d].fine # NoId) =>
                 fineScreen'[d].shown =
                     DerivedStatus(fineScreen'[d].status,
                                   fines[fineScreen'[d].fine].due_date, now)]_vars

\* C16 (as claimed): no complaint has status resolved with a null response.
C16_ResolvedHasResponse ==
    \A c \in DOMAIN complaints :
        complaints[c].status = "resolved" => complaints[c].response # NoText

\* C17 (as claimed): no complaint has status resolved or rejected without a
\* resolver identity and a resolution timestamp.
C17_ClosedHasResolver ==
    \A c \in DOMAIN complaints :
        complaints[c].status \in {"resolved", "rejected"} =>
            complaints[c].resolved_by # NULL /\ complaints[c].resolved_at # NoDate

\* C18 (as claimed): every tow row has a non-null vehicle_id that is the id of
\* an existing vehicle.
C18_TowHasVehicle ==
    \A t \in DOMAIN tows :
        tows[t].vehicle_id # NoId /\ tows[t].vehicle_id \in LiveVehicles(vehicles)

\* C19 (as claimed): when a step after the tow insert failed, the tow row is
\* kept and the caller is told so: by an alert that is neither the alert of a
\* failed tow insert nor the alert of a success.
C19_LaterFailureIsTold ==
    lastSubmit.failed \in {"fine", "notification"} =>
        /\ lastSubmit.tow \in DOMAIN tows
        /\ \A f \in BOOLEAN :
              /\ lastSubmit.alert # SubmitAlert("tow", f)
              /\ lastSubmit.alert # SubmitAlert("none", f)

\* C20 (as claimed): every tow's lifecycle status is pending, active or
\* completed and its request status is new, accepted, rejected or completed.
C20_TowStatusDomains ==
    \A t \in DOMAIN tows :
        /\ tows[t].status \in {"pending", "active", "completed"}
        /\ tows[t].request_status \in {"new", "accepted", "rejected", "completed"}

\* C28 (as claimed): a complaint has resolved_at or resolved_by set only if
\* its status is resolved; a later change of the status leaves none behind.
C28_ResolutionOnlyWhenResolved ==
    \A c \in DOMAIN complaints :
        (complaints[c].resolved_by # NULL \/ complaints[c].resolved_at # NoDate) =>
            complaints[c].status = "resolved"

\* C21 (as claimed): when the substring pass of a lookup on vehicles answers
\* with more than one row, one of its rows is the vehicle set and the caller
\* gets the 'Multiple Matches' warning, on each of the three screens.
C21_AmbiguityIsTold ==
    \A i \in DOMAIN lookup.passes :
        LET pass == lookup.passes[i] IN
        (pass.table = "vehicles" /\ pass.kind = "substring"
            /\ Cardinality(pass.rows) > 1) =>
                lookup.vehicle \in pass.rows /\ lookup.alert = "Multiple Matches"

\* C22 (as claimed): when a pass of a lookup failed, the caller is told of a
\* failure, and is not told that no vehicle was found.
C22_LookupErrorIsTold ==
    (\E i \in DOMAIN lookup.passes : lookup.passes[i].net = "error") =>
        /\ lookup.alert \in {"Failed to search for vehicle",
                             "Failed to search for the vehicle. Please try again."}
        /\ ~lookup.notFound

\* C23 (as claimed): a lookup queries with the typed plate trimmed and in upper
\* case, sends the exact pass first and the substring pass only after the
\* exact pass answered with zero rows, and a row of the exact pass is the result.
C23_ExactPassFirst ==
    lookup.passes # <<>> =>
        LET exact == lookup.passes[1] IN
        /\ lookup.query = ToUpperCase(Trim(lookup.typed))
        /\ exact.table = "vehicles" /\ exact.kind = "exact"
        /\ \A i \in DOMAIN lookup.passes :
              (lookup.passes[i].table = "vehicles" /\ lookup.passes[i].kind = "substring")
                  => i = 2 /\ exact.net = "ok" /\ exact.rows = {}
        /\ exact.rows # {} => lookup.vehicle \in exact.rows /\ Len(lookup.passes) = 1

\* C24 (as claimed): a record-tow submitted with no vehicle found leaves a tow
\* that references a new vehicle row with owner_id null and the tow's
\* upper-cased plate, whose make, model and color are the operator's input,
\* or the unknown sentinel when that input is empty, and are never blank.
C24_UnknownVehicleCreated ==
    (lastSubmit.tow # NoId /\ lastSubmit.found = NoId) =>
        LET tow == tows[lastSubmit.tow]
            info == lastSubmit.info
        IN  /\ tow.vehicle_id \in DOMAIN vehicles
            /\ LET v == vehicles[tow.vehicle_id] IN
               /\ v.owner_id = NULL
               /\ v.license_plate = tow.license_plate
               /\ v.license_plate = ToUpperCase(v.license_plate)
               /\ v.make = (IF info.make = <<>> THEN <<"Unknown">> ELSE info.make)
               /\ v.model = (IF info.model = <<>> THEN <<"Unknown">> ELSE info.model)
               /\ v.color = (IF info.color = <<>> THEN <<"unknown">> ELSE info.color)
               /\ \A x \in {v.make, v.model, v.color} : Len(Trim(x)) > 0

\* C25: a step that inserts a fine together with a tow, or a fine linked to a
\* tow, inserts exactly one tow, and the fine is unpaid, has the id of that
\* tow as tow_id, that tow's vehicle as vehicle_id, and falls due 30 days
\* after its issue date.
C25_FineLinkedToTow ==
    [][\A f \in DOMAIN fines' \ DOMAIN fines :
          (fines'[f].tow_id # NoId \/ Len(tows') > Len(tows)) =>
              /\ Len(tows') = Len(tows) + 1
              /\ fines'[f].tow_id = Len(tows')
              /\ fines'[f].status = "unpaid"
              /\ fines'[f].vehicle_id # NoId
              /\ fines'[f].vehicle_id = tows'[Len(tows')].vehicle_id
              /\ fines'[f].due_date = fines'[f].issue_date + DueDays]_vars

C25_Witness ==
    \E f \in DOMAIN fines :
        /\ fines[f].tow_id \in DOMAIN tows
        /\ fines[f].issue_date > 0
        /\ lastSubmit.failed = "none"

\* C30 (as claimed): when the record-tow flow reports success 'with associated
\* fine', a fine linked to the tow it created exists; when no fine was
\* inserted for that tow, no associated fine is reported.
C30_ReportedFineExists ==
    lastSubmit.alert = "Tow record created successfully with associated fine" =>
        \E f \in DOMAIN fines : fines[f].tow_id = lastSubmit.tow

\* C26 (as claimed): the update the tow details screen sends for 'Start
\* Towing' (the step that changes the tow shown to status active and reloads
\* the screen) leaves the request_status of that tow as the store held it.
C26_StartTowingKeepsRequestStatus ==
    [][(/\ towDetails.id # NoId
        /\ tows' # tows
        /\ towDetails' # towDetails
        /\ tows'[towDetails.id].status = "active")
          => tows'[towDetails.id].request_status = tows[towDetails.id].request_status]_vars

\* C27 (as claimed): a tow whose request was rejected (request_status
\* rejected, status cancelled) stays so under every staff action.
C27_RejectedIsTerminal ==
    [][\A t \in DOMAIN tows :
          (tows[t].request_status = "rejected" /\ tows[t].status = "cancelled") =>
              /\ tows'[t].status \notin {"active", "completed"}
              /\ tows'[t].request_status = "rejected"]_vars

\* C29 (as claimed): from startup, when every backend call settles, with an
\* answer or an error, and an armed timer fires, the splash screen eventually
\* navigates, to Login or to a dashboard; a failed initial credential check
\* does not keep the app on the splash screen.
C29_SplashEventuallyNavigates == <>(lastNav.by = "splash")

====
